---- MODULE Spec2Model ----
(***************************************************************************)
(* Artifact lifecycle and prediction pipeline of the bike-sharing demand   *)
(* service: app/main.py (startup loading with auto-retrain, /api/predict), *)
(* src/train.py (train_model: time split and the five sequential dumps),   *)
(* src/predict.py (lazy feature-name cache, predict) and                   *)
(* src/preprocessing.py (engineer_features).                               *)
(*                                                                         *)
(* Numeric conventions: temp, hum and windspeed are held in hundredths,    *)
(* temp_x_hum in ten-thousandths (the exact product), the cyclic encodings *)
(* in thousandths (rounded), model outputs as integers.  The working       *)
(* directory is the project root ("Run from project root", train.py), so   *)
(* the relative "artifacts" of src/ and the absolute ARTIFACTS_DIR of      *)
(* app/main.py name the same directory.                                    *)
(***************************************************************************)
EXTENDS Integers, Sequences, FiniteSets, TLC

VARIABLES
    files,          \* artifacts directory: file name -> [present, ok, run]
    phase,          \* position of the serving process: start, retrain, retry, serving, failed
    globals,        \* app.main globals: model, train_data, test_data, test_predictions
    feature_names,  \* src.predict._feature_names, the lazily filled cache
    trainer,        \* a run of train_model per process ("app", "manual"): [pc, k, open, run]
    nextRun,        \* identity given to the next run of train_model
    hist,           \* history of the current serving process (counters, outcome)
    response,       \* last response of /api/predict: [status, prediction]
    call,           \* last call of predict: its inputs and its outcome
    split           \* last evaluation of the time-based split of train_model

vars == <<files, phase, globals, feature_names, trainer, nextRun, hist, response, call, split>>

\* ------------------------------------------------------------------ bounds
MaxStarts == 2
MaxManual == 1
MaxOut == 1
MaxRows == 3

\* --------------------------------------------------------------- artifacts
REQUIRED_ARTIFACTS ==
    <<"model.pkl", "train_data.pkl", "test_data.pkl", "test_predictions.pkl", "feature_names.pkl">>

ArtifactNames == {REQUIRED_ARTIFACTS[i] : i \in 1..Len(REQUIRED_ARTIFACTS)}

\* A file of the artifacts directory: absent, or present and either deserializable
\* (ok) or not; run is the training run that wrote it (0: a run before the model starts).
Absent == [present |-> FALSE, ok |-> FALSE, run |-> 0]
Ok(r) == [present |-> TRUE, ok |-> TRUE, run |-> r]
Undeserializable(r) == [present |-> TRUE, ok |-> FALSE, run |-> r]

\* A Python global: None, or the object deserialized from the file run r wrote.
NoneVal == [loaded |-> FALSE, run |-> 0]
Loaded(r) == [loaded |-> TRUE, run |-> r]

artifacts_exist(fs) ==
    \A i \in 1..Len(REQUIRED_ARTIFACTS) : fs[REQUIRED_ARTIFACTS[i]].present

\* The four loads of _load_artifacts, in order; each global is bound to its file.
LoadOrder == <<"model", "train_data", "test_data", "test_predictions">>
FileOf ==
    [n \in {"model", "train_data", "test_data", "test_predictions"} |->
        CASE n = "model" -> "model.pkl"
          [] n = "train_data" -> "train_data.pkl"
          [] n = "test_data" -> "test_data.pkl"
          [] OTHER -> "test_predictions.pkl"]

\* joblib.load raises on a missing or undeserializable file.
joblib_load_raises(fs, name) == ~fs[name].ok

\* Index in LoadOrder of the first load that raises, Len(LoadOrder)+1 when none does.
FirstRaising(fs) ==
    LET bad == {i \in 1..Len(LoadOrder) : joblib_load_raises(fs, FileOf[LoadOrder[i]])}
    IN  IF bad = {} THEN Len(LoadOrder) + 1
        ELSE CHOOSE i \in bad : \A j \in bad : i <= j

IndexOf(n) == CHOOSE i \in 1..Len(LoadOrder) : LoadOrder[i] = n

\* One try block of _load_artifacts: the assignments before the first raising load
\* take effect, the others keep their value.
LoadAttempt(fs, g) ==
    LET fb == FirstRaising(fs)
    IN  [ok |-> fb > Len(LoadOrder),
         globals |-> [n \in DOMAIN g |->
                        IF IndexOf(n) < fb THEN Loaded(fs[FileOf[n]].run) ELSE g[n]]]

\* ---------------------------------------------------------------- training
\* Variant of DumpOrder: the dump of the feature names is left out.
DumpOrderNoSchema ==
    <<"model.pkl", "train_data.pkl", "test_data.pkl", "test_predictions.pkl">>

\* Order of the joblib.dump calls of train_model.
DumpOrder ==
    <<"model.pkl", "feature_names.pkl", "train_data.pkl", "test_data.pkl", "test_predictions.pkl">>

Idle == [pc |-> "idle", k |-> 0, open |-> FALSE, run |-> 0]

HistInit(starts, manual, prevRegenerated) ==
    [starts |-> starts, manual |-> manual, prevRegenerated |-> prevRegenerated,
     existed |-> FALSE, badAtStart |-> FALSE, firstLoadFailed |-> FALSE, loads |-> 0, retries |-> 0,
     retrains |-> 0, retrainReturned |-> FALSE, retryFailed |-> FALSE,
     run |-> 0, error |-> "none", accepted |-> FALSE, served |-> FALSE, retrainAfterRequest |-> FALSE]

NoResponse == [status |-> 0, prediction |-> 0]
NoCall ==
    [src |-> "none", raw_input |-> <<>>, pred |-> 0, raised |-> "none", vector |-> <<>>,
     result |-> 0, model |-> NoneVal, schema |-> NoneVal]
NoSplit == [done |-> FALSE, df |-> <<>>, train_mask |-> <<>>, test_mask |-> <<>>,
            train_rows |-> <<>>, test_rows |-> <<>>]

\* A process starts with an artifacts directory left by earlier runs: each file absent,
\* undeserializable (written by an incompatible library version) or intact.
Init ==
    /\ files \in [ArtifactNames -> {Absent, Undeserializable(0), Ok(0)}]
    /\ phase = "start"
    /\ globals = [n \in DOMAIN FileOf |-> NoneVal]
    /\ feature_names = NoneVal
    /\ trainer = [p \in {"app", "manual"} |-> Idle]
    /\ nextRun = 1
    /\ hist = HistInit(1, 0, FALSE)
    /\ response = NoResponse
    /\ call = NoCall
    /\ split = NoSplit

\* Variant of NeedsRetrain: the return after a successful first load is missing.
AlwaysRetrain(ex, loaded) == TRUE

\* _load_artifacts retrains when the existence check is false or the first try raised.
NeedsRetrain(ex, loaded) == ~ex \/ ~loaded

\* _load_artifacts up to the call of train_model (or to its return on the first attempt).
FirstAttempt ==
    /\ phase = "start"
    /\ LET ex == artifacts_exist(files)
           att == IF ex THEN LoadAttempt(files, globals) ELSE [ok |-> FALSE, globals |-> globals]
           bad == \E f \in ArtifactNames : files[f].present /\ ~files[f].ok
       IN  /\ globals' = att.globals
           /\ IF NeedsRetrain(ex, att.ok)
              THEN /\ phase' = "retrain"
                   /\ trainer' = [trainer EXCEPT !["app"] =
                                     [pc |-> "fit", k |-> 0, open |-> FALSE, run |-> nextRun]]
                   /\ nextRun' = nextRun + 1
                   /\ hist' = [hist EXCEPT !.existed = ex, !.badAtStart = bad,
                                           !.firstLoadFailed = ex /\ ~att.ok,
                                           !.loads = IF ex THEN 1 ELSE 0,
                                           !.retrains = hist.retrains + 1, !.run = nextRun]
              ELSE /\ phase' = "serving"
                   /\ hist' = [hist EXCEPT !.existed = ex, !.badAtStart = bad, !.loads = 1]
                   /\ UNCHANGED <<trainer, nextRun>>
    /\ UNCHANGED <<files, feature_names, response, call, split>>

\* train_model from load_data to the second fit: nothing is written yet.
TrainFit(p) ==
    /\ trainer[p].pc = "fit"
    /\ trainer' = [trainer EXCEPT ![p].pc = "dump", ![p].k = 1]
    /\ hist' = IF p = "app" /\ hist.accepted
               THEN [hist EXCEPT !.retrainAfterRequest = TRUE] ELSE hist
    /\ UNCHANGED <<files, phase, globals, feature_names, nextRun, response, call, split>>

\* joblib.dump opens its target for writing: the old content is gone and the file is
\* not deserializable until the dump completes.
DumpOpen(p) ==
    /\ trainer[p].pc = "dump"
    /\ ~trainer[p].open
    /\ files' = [files EXCEPT ![DumpOrder[trainer[p].k]] = Undeserializable(trainer[p].run)]
    /\ trainer' = [trainer EXCEPT ![p].open = TRUE]
    /\ UNCHANGED <<phase, globals, feature_names, nextRun, hist, response, call, split>>

\* joblib.dump completes; after the last one train_model returns, and in the serving
\* process _retrain returns to _load_artifacts.
DumpClose(p) ==
    /\ trainer[p].pc = "dump"
    /\ trainer[p].open
    /\ files' = [files EXCEPT ![DumpOrder[trainer[p].k]] = Ok(trainer[p].run)]
    /\ IF trainer[p].k < Len(DumpOrder)
       THEN /\ trainer' = [trainer EXCEPT ![p].k = trainer[p].k + 1, ![p].open = FALSE]
            /\ UNCHANGED <<phase, hist>>
       ELSE /\ trainer' = [trainer EXCEPT ![p] = Idle]
            /\ IF p = "app"
               THEN /\ phase' = "retry"
                    /\ hist' = [hist EXCEPT !.retrainReturned = TRUE]
               ELSE UNCHANGED <<phase, hist>>
    /\ UNCHANGED <<globals, feature_names, nextRun, response, call, split>>

\* Variant of TrainRaise: the exception of train_model is swallowed and the import of
\* app.main goes on.
TrainRaiseSwallowed(p) ==
    /\ trainer[p].pc \in {"fit", "dump"}
    /\ trainer' = [trainer EXCEPT ![p] = Idle]
    /\ IF p = "app"
       THEN /\ phase' = "serving"
            /\ hist' = hist
       ELSE UNCHANGED <<phase, hist>>
    /\ UNCHANGED <<files, globals, feature_names, nextRun, response, call, split>>

\* train_model raises (dataset unreadable, fit failure, a dump that cannot open or
\* complete its file).  Nothing catches it in _retrain or _load_artifacts: in the
\* serving process the exception of train_model itself ends the import of app.main.
TrainRaise(p) ==
    /\ trainer[p].pc \in {"fit", "dump"}
    /\ trainer' = [trainer EXCEPT ![p] = Idle]
    /\ IF p = "app"
       THEN /\ phase' = "failed"
            /\ hist' = [hist EXCEPT !.error = "TrainError"]
       ELSE UNCHANGED <<phase, hist>>
    /\ UNCHANGED <<files, globals, feature_names, nextRun, response, call, split>>

\* Variant of RetryLoad: a failed retry retrains again instead of raising.
RetryLoadLoops ==
    /\ phase = "retry"
    /\ LET att == LoadAttempt(files, globals)
       IN  /\ globals' = att.globals
           /\ IF att.ok
              THEN /\ phase' = "serving"
                   /\ hist' = [hist EXCEPT !.retries = hist.retries + 1]
                   /\ UNCHANGED <<trainer, nextRun>>
              ELSE /\ phase' = "retrain"
                   /\ trainer' = [trainer EXCEPT !["app"] =
                                     [pc |-> "fit", k |-> 0, open |-> FALSE, run |-> nextRun]]
                   /\ nextRun' = nextRun + 1
                   /\ hist' = [hist EXCEPT !.retries = hist.retries + 1, !.retryFailed = TRUE,
                                           !.retrains = hist.retrains + 1]
    /\ UNCHANGED <<files, feature_names, response, call, split>>

\* The second try block of _load_artifacts, after _retrain returned.
RetryLoad ==
    /\ phase = "retry"
    /\ LET att == LoadAttempt(files, globals)
       IN  /\ globals' = att.globals
           /\ IF att.ok
              THEN /\ phase' = "serving"
                   /\ hist' = [hist EXCEPT !.retries = hist.retries + 1]
              ELSE /\ phase' = "failed"
                   /\ hist' = [hist EXCEPT !.retries = hist.retries + 1, !.retryFailed = TRUE,
                                           !.error = "RuntimeError"]
    /\ UNCHANGED <<files, feature_names, trainer, nextRun, response, call, split>>

\* The serving process ends (it failed at startup, or is stopped) and a new one
\* starts: module globals and the feature-name cache are fresh, the files stay.
Restart ==
    /\ phase \in {"serving", "failed"}
    /\ hist.starts < MaxStarts
    /\ phase' = "start"
    /\ globals' = [n \in DOMAIN FileOf |-> NoneVal]
    /\ feature_names' = NoneVal
    /\ hist' = HistInit(hist.starts + 1, hist.manual,
                        phase = "serving" /\ ~hist.existed /\ hist.retrainReturned)
    /\ response' = NoResponse
    /\ call' = NoCall
    /\ UNCHANGED <<files, trainer, nextRun, split>>

\* ----------------------------------------------------------- preprocessing
TARGET == "cnt"
DROP_COLUMNS == <<"instant", "dteday", "casual", "registered", "atemp">>
RAW_INPUT_COLUMNS ==
    <<"season", "yr", "mnth", "hr", "holiday", "weekday",
      "workingday", "weathersit", "temp", "hum", "windspeed">>

SeqSet(s) == {s[i] : i \in 1..Len(s)}

\* Columns of the dataset read by load_data: the five DROP_COLUMNS, the eleven raw
\* inputs and the target, in the order of the file.
DatasetColumns ==
    <<"instant", "dteday", "season", "yr", "mnth", "hr", "holiday", "weekday",
      "workingday", "weathersit", "temp", "atemp", "hum", "windspeed",
      "casual", "registered", "cnt">>

\* The columns engineer_features adds, in the order of its assignments.
DerivedColumns ==
    <<"hr_sin", "hr_cos", "mnth_sin", "mnth_cos", "is_rush_hour", "is_weekend", "temp_x_hum">>

\* The columns engineer_features reads: a frame without one of them raises KeyError.
EngineerInputs == {"hr", "mnth", "workingday", "temp", "hum"}

\* sin and cos of 2*pi*hr/24 for hr = 0..23, and of 2*pi*mnth/12 for mnth = 1..12,
\* in thousandths.
HrSin ==
    <<0, 259, 500, 707, 866, 966, 1000, 966, 866, 707, 500, 259,
      0, -259, -500, -707, -866, -966, -1000, -966, -866, -707, -500, -259>>
HrCos ==
    <<1000, 966, 866, 707, 500, 259, 0, -259, -500, -707, -866, -966,
      -1000, -966, -866, -707, -500, -259, 0, 259, 500, 707, 866, 966>>
MnthSin == <<500, 866, 1000, 866, 500, 0, -500, -866, -1000, -866, -500, 0>>
MnthCos == <<866, 500, 0, -500, -866, -1000, -866, -500, 0, 500, 866, 1000>>

RushHours == {7, 8, 9, 17, 18, 19}

\* The value engineer_features gives a derived column of one row.
Derived(row, c) ==
    CASE c = "hr_sin" -> HrSin[row["hr"] + 1]
      [] c = "hr_cos" -> HrCos[row["hr"] + 1]
      [] c = "mnth_sin" -> MnthSin[row["mnth"]]
      [] c = "mnth_cos" -> MnthCos[row["mnth"]]
      [] c = "is_rush_hour" -> IF row["hr"] \in RushHours THEN 1 ELSE 0
      [] c = "is_weekend" -> IF row["workingday"] = 0 THEN 1 ELSE 0
      [] OTHER -> row["temp"] * row["hum"]

\* engineer_features on one row (a function from column names to values): the derived
\* columns are added (overwriting), then the DROP_COLUMNS present are dropped.
\* Defined when EngineerInputs \subseteq DOMAIN row.
engineer_features(row) ==
    [c \in (DOMAIN row \cup SeqSet(DerivedColumns)) \ SeqSet(DROP_COLUMNS) |->
        IF c \in SeqSet(DerivedColumns) THEN Derived(row, c) ELSE row[c]]

\* engineer_features on the column list of a frame: new columns are appended in the
\* order they are assigned, dropped ones removed.
EngineerColumnList(cols) ==
    LET IsNew(c) == c \notin SeqSet(cols)
        Kept(c) == c \notin SeqSet(DROP_COLUMNS)
    IN  SelectSeq(cols \o SelectSeq(DerivedColumns, IsNew), Kept)

\* X_all.columns.tolist(): what train_model dumps to feature_names.pkl.
TrainedFeatureNames ==
    LET NotTarget(c) == c # TARGET
    IN  SelectSeq(EngineerColumnList(DatasetColumns), NotTarget)

\* ----------------------------------------------------------------- predict
load_feature_names(cache, fs) ==
    IF cache.loaded THEN [raised |-> FALSE, cache |-> cache]
    ELSE IF joblib_load_raises(fs, "feature_names.pkl")
         THEN [raised |-> TRUE, cache |-> cache]
         ELSE [raised |-> FALSE, cache |-> Loaded(fs["feature_names.pkl"].run)]

\* Variant of reindex: fill_value is 1.
reindex_fill_one(df, names) ==
    [i \in 1..Len(names) |-> IF names[i] \in DOMAIN df THEN df[names[i]] ELSE 1]

\* DataFrame.reindex(columns=names, fill_value=0) on one row.
reindex(df, names) ==
    [i \in 1..Len(names) |-> IF names[i] \in DOMAIN df THEN df[names[i]] ELSE 0]

\* Variant of clip: the model output is returned as it is.
no_clip(pred) == pred

\* max(0, pred)
clip(pred) == IF pred > 0 THEN pred ELSE 0

\* predict(model, raw_input) with the module state it reads (the cache, the files)
\* and the value pred the model's own predict returns for the reindexed row.
predict(mdl, raw_input, cache, fs, pred) ==
    LET fn == load_feature_names(cache, fs)
        Outcome(raised, vector, result) ==
            [raised |-> raised, cache |-> fn.cache, vector |-> vector, result |-> result]
    IN  IF fn.raised THEN Outcome("LoadError", <<>>, 0)
        ELSE IF ~(EngineerInputs \subseteq DOMAIN raw_input) THEN Outcome("KeyError", <<>>, 0)
        ELSE LET x == reindex(engineer_features(raw_input), TrainedFeatureNames)
             IN  IF ~mdl.loaded THEN Outcome("AttributeError", x, 0)
                 ELSE Outcome("none", x, clip(pred))

CallOf(src, mdl, raw_input, pred, out) ==
    [src |-> src, raw_input |-> raw_input, pred |-> pred, raised |-> out.raised,
     vector |-> out.vector, result |-> out.result, model |-> mdl, schema |-> out.cache]

\* Raw observations used as inputs (season, yr, mnth, hr, holiday, weekday, workingday,
\* weathersit, temp, hum, windspeed).
Observations ==
    {<<1, 1, 6, 8, 0, 3, 1, 1, 50, 60, 20>>,
     <<4, 1, 12, 23, 1, 6, 0, 3, 2, 100, 85>>}

RowOf(obs, keys) ==
    [c \in keys |-> obs[CHOOSE i \in 1..Len(RAW_INPUT_COLUMNS) : RAW_INPUT_COLUMNS[i] = c]]

ModelOutputs == (0 - MaxOut)..MaxOut

\* ------------------------------------------------------------- api_predict
\* Request bodies: all eleven raw fields, or all but one of them.
Bodies ==
    {RowOf(obs, SeqSet(RAW_INPUT_COLUMNS) \ d) :
        obs \in {<<1, 1, 6, 8, 0, 3, 1, 1, 50, 60, 20>>},
        d \in {{}, {"yr"}, {"hr"}}}

\* What the loaded model returns for a request: a negative and a positive value.
ApiModelOutputs == {0 - 3, 7}

\* body.setdefault("yr", 1)
setdefault_yr(body) ==
    [c \in DOMAIN body \cup {"yr"} |-> IF c \in DOMAIN body THEN body[c] ELSE 1]

\* POST /api/predict, up to the prediction (the rounding of the response and the
\* optional comparison with "actual" change no state).  Status 500 stands for an
\* exception leaving the handler.
ApiPredict ==
    /\ phase = "serving"
    /\ \E body \in Bodies, pred \in ApiModelOutputs :
          LET b == setdefault_yr(body)
          IN  IF ~(SeqSet(RAW_INPUT_COLUMNS) \subseteq DOMAIN b)
              THEN /\ response' = [status |-> 400, prediction |-> 0]
                   /\ hist' = [hist EXCEPT !.accepted = TRUE]
                   /\ UNCHANGED <<feature_names, call>>
              ELSE LET raw_input == [c \in SeqSet(RAW_INPUT_COLUMNS) |-> b[c]]
                       out == predict(globals["model"], raw_input, feature_names, files, pred)
                   IN  /\ feature_names' = out.cache
                       /\ call' = CallOf("api", globals["model"], raw_input, pred, out)
                       /\ response' = IF out.raised = "none"
                                      THEN [status |-> 200, prediction |-> out.result]
                                      ELSE [status |-> 500, prediction |-> 0]
                       /\ hist' = [hist EXCEPT !.accepted = TRUE,
                                               !.served = hist.served \/ out.raised = "none"]
    /\ UNCHANGED <<files, phase, globals, trainer, nextRun, split>>

Next ==
    \/ FirstAttempt
    \/ TrainFit("app")
    \/ DumpOpen("app")
    \/ DumpClose("app")
    \/ TrainRaise("app")
    \/ RetryLoad
    \/ ApiPredict
    \/ Restart

Spec == Init /\ [][Next]_vars

\* ------------------------------------------------- manual training (python -m src.train)
\* The training entry point run by hand, in a process of its own, at any time.  A run
\* by hand that raises leaves the files as one that stops where it is: it has no
\* action of its own.
ManualStart ==
    /\ trainer["manual"].pc = "idle"
    /\ hist.manual < MaxManual
    /\ trainer' = [trainer EXCEPT !["manual"] =
                      [pc |-> "fit", k |-> 0, open |-> FALSE, run |-> nextRun]]
    /\ nextRun' = nextRun + 1
    /\ hist' = [hist EXCEPT !.manual = hist.manual + 1]
    /\ UNCHANGED <<files, phase, globals, feature_names, response, call, split>>

\* The directory found by a startup during which training is also run by hand: empty,
\* or the bundle of an earlier run, intact or with one file deleted or undeserializable.
InitManual ==
    /\ Init
    /\ \/ \A f \in ArtifactNames : files[f] = Absent
       \/ Cardinality({f \in ArtifactNames : files[f] # Ok(0)}) <= 1

NextManual ==
    \/ FirstAttempt
    \/ TrainFit("app")
    \/ DumpOpen("app")
    \/ DumpClose("app")
    \/ TrainRaise("app")
    \/ RetryLoad
    \/ ApiPredict
    \/ ManualStart
    \/ TrainFit("manual")
    \/ DumpOpen("manual")
    \/ DumpClose("manual")

SpecManual == InitManual /\ [][NextManual]_vars

\* ---------------------------------------------------- the time-based split
SPLIT_DATE == <<2012, 7, 1>>

\* Comparison of two dates <<year, month, day>>.
DateLT(a, b) ==
    \/ a[1] < b[1]
    \/ a[1] = b[1] /\ a[2] < b[2]
    \/ a[1] = b[1] /\ a[2] = b[2] /\ a[3] < b[3]

\* Variant of DateGE: strictly after.
DateGT(a, b) == DateLT(b, a)

DateGE(a, b) == a = b \/ DateLT(b, a)

\* The masks and the partitions of train_model on a dataset df, a sequence of rows
\* [instant, dteday] with instant the position of the row.
time_split(df) ==
    LET train_mask == [i \in 1..Len(df) |-> DateLT(df[i].dteday, SPLIT_DATE)]
        test_mask == [i \in 1..Len(df) |-> DateGE(df[i].dteday, SPLIT_DATE)]
        InTrain(r) == train_mask[r.instant]
        InTest(r) == test_mask[r.instant]
    IN  [done |-> TRUE, df |-> df, train_mask |-> train_mask, test_mask |-> test_mask,
         train_rows |-> SelectSeq(df, InTrain), test_rows |-> SelectSeq(df, InTest)]

\* Dates of the observation period, on both sides of the boundary and on it.
Dates == {<<2011, 8, 15>>, <<2012, 6, 30>>, <<2012, 7, 1>>, <<2012, 7, 2>>, <<2012, 12, 31>>}

Datasets ==
    UNION {{[i \in 1..n |-> [instant |-> i, dteday |-> d[i]]] : d \in [1..n -> Dates]} :
              n \in 0..MaxRows}

\* ------------------------------------------- the functions on their own inputs
\* A process that has loaded its artifacts, the feature-name cache filled or not, makes
\* one direct call: of predict, or of the split.
InitPure ==
    /\ files = [f \in ArtifactNames |-> Ok(1)]
    /\ phase = "serving"
    /\ globals = [n \in DOMAIN FileOf |-> Loaded(1)]
    /\ feature_names \in {NoneVal, Loaded(1)}
    /\ trainer = [p \in {"app", "manual"} |-> Idle]
    /\ nextRun = 2
    /\ hist = [HistInit(1, 0, FALSE) EXCEPT !.existed = TRUE, !.loads = 1]
    /\ response = NoResponse
    /\ call = NoCall
    /\ split = NoSplit

\* predict(model, raw_input) on a raw input holding any subset of the raw columns.
PredictCall ==
    /\ call = NoCall
    /\ split = NoSplit
    /\ \E obs \in Observations, keys \in SUBSET SeqSet(RAW_INPUT_COLUMNS), pred \in ModelOutputs :
          LET raw_input == RowOf(obs, keys)
              out == predict(globals["model"], raw_input, feature_names, files, pred)
          IN  /\ feature_names' = out.cache
              /\ call' = CallOf("direct", globals["model"], raw_input, pred, out)
    /\ UNCHANGED <<files, phase, globals, trainer, nextRun, hist, response, split>>

\* The split of train_model on a dataset.
SplitCall ==
    /\ call = NoCall
    /\ split = NoSplit
    /\ \E df \in Datasets : split' = time_split(df)
    /\ UNCHANGED <<files, phase, globals, feature_names, trainer, nextRun, hist, response, call>>

NextPure == PredictCall \/ SplitCall

SpecPure == InitPure /\ [][NextPure]_vars

\* ------------------------------------------------------------------ claims
Terminal == phase \in {"serving", "failed"}

\* C1: in one startup the training pipeline is triggered at most once, exactly when the
\* existence check is false or the first load attempt failed; there are never more than
\* two load attempts, and at the end of startup the load has been retried exactly once
\* if the retrain returned (and not at all if it raised).
C1_RetrainAtMostOnce ==
    /\ hist.retrains <= 1
    /\ hist.retries <= 1
    /\ hist.loads + hist.retries <= 2
    /\ phase # "start" =>
          /\ hist.retrains = 1 <=> (~hist.existed \/ hist.firstLoadFailed)
          /\ hist.loads = 1 <=> hist.existed
    /\ Terminal => (hist.retries = 1 <=> hist.retrainReturned)

C1_Witness ==
    /\ phase = "serving"
    /\ hist.existed /\ hist.firstLoadFailed
    /\ hist.retrains = 1 /\ hist.loads = 1 /\ hist.retries = 1

AllRegenerated == \A f \in ArtifactNames : files[f] = Ok(hist.run)

C3_AtomicSave ==
    (trainer["app"].pc = "idle" /\ artifacts_exist(files)) =>
        /\ \A f, g \in ArtifactNames : files[f].run = files[g].run
        /\ \A f \in ArtifactNames : files[f].ok \/ files[f].run = 0

\* C4: an artifact file that is present but does not deserialize at startup makes
\* startup retrain, and no load failure leaves a request handler as an exception.
C4_DeserializeFailureCaught ==
    /\ (phase # "start" /\ hist.badAtStart) => hist.retrains >= 1
    /\ call.raised # "LoadError"
    /\ response.status # 500

\* C5 as stated: a failed startup is always surfaced as the RuntimeError 'Startup
\* failed', and no prediction is served.
C5_Original ==
    phase = "failed" =>
        /\ hist.error = "RuntimeError"
        /\ ~hist.served

\* C5, amended: when the retrain raises, startup fails with the exception of
\* train_model itself; when the load after the retrain fails, startup fails with the
\* RuntimeError 'Startup failed'.  Either way the process stays failed: one retrain
\* only, no training step after the failure, no request accepted or served.
C5_Amended ==
    /\ hist.retryFailed => phase = "failed" /\ hist.error = "RuntimeError"
    /\ hist.error = "TrainError" => phase = "failed" /\ ~hist.retrainReturned
    /\ hist.error = "RuntimeError" => hist.retryFailed /\ hist.retrainReturned
    /\ phase = "failed" =>
          /\ hist.error \in {"TrainError", "RuntimeError"}
          /\ hist.retrains = 1
          /\ hist.retries <= 1
          /\ trainer["app"].pc = "idle"
          /\ ~hist.accepted
          /\ ~hist.served
          /\ call.src = "none"
    /\ phase = "serving" => hist.error = "none"

C5_Witness ==
    /\ phase = "failed"
    /\ hist.retryFailed
    /\ hist.error = "RuntimeError"
    /\ hist.retrains = 1

\* C6: training runs only during startup and to completion before any request is
\* accepted: once a request has been accepted the process is serving, no retrain step
\* is pending or has run since, and every call of predict from api_predict is given a
\* loaded model.
C6_TrainOnlyAtStartup ==
    /\ phase = "serving" => trainer["app"].pc = "idle" /\ globals["model"].loaded
    /\ hist.accepted =>
          /\ phase = "serving"
          /\ ~hist.retrainAfterRequest
    /\ call.src = "api" => call.model.loaded /\ call.raised # "AttributeError"

C6_Witness ==
    /\ hist.retrains = 1
    /\ hist.accepted
    /\ call.src = "api"
    /\ response.status = 200

\* C7: a call of predict that returns gives max(0, model output), which is >= 0, also
\* for a negative output.
C7_NonNegative ==
    (call.src # "none" /\ call.raised = "none") =>
        /\ call.result >= 0
        /\ call.result >= call.pred
        /\ call.result \in {0, call.pred}

C7_Witness ==
    /\ call.src = "direct"
    /\ call.raised = "none"
    /\ call.pred < 0
    /\ call.result = 0

RawSet == SeqSet(RAW_INPUT_COLUMNS)

\* C8 as stated: predict never raises, whatever columns of the schema the raw input
\* lacks, and the columns it lacks are 0 in the vector given to the model.
C8_Original ==
    call.src = "direct" =>
        /\ call.raised = "none"
        /\ \A i \in 1..Len(TrainedFeatureNames) :
              TrainedFeatureNames[i] \in RawSet \ DOMAIN call.raw_input => call.vector[i] = 0

\* C8, amended: predict raises KeyError exactly when the raw input lacks one of hr,
\* mnth, workingday, temp, hum (the columns engineer_features reads); otherwise it
\* completes, every raw column the input lacks is 0 in the vector given to the model
\* and every raw column it holds keeps its value.
C8_Amended ==
    call.src = "direct" =>
        /\ call.raised \in {"none", "KeyError"}
        /\ call.raised = "KeyError" <=>
              \E c \in {"hr", "mnth", "workingday", "temp", "hum"} : c \notin DOMAIN call.raw_input
        /\ call.raised = "none" =>
              /\ Len(call.vector) = Len(TrainedFeatureNames)
              /\ \A i \in 1..Len(TrainedFeatureNames) :
                    LET c == TrainedFeatureNames[i]
                    IN  /\ c \in RawSet \ DOMAIN call.raw_input => call.vector[i] = 0
                        /\ c \in DOMAIN call.raw_input => call.vector[i] = call.raw_input[c]

C8_Witness ==
    /\ call.src = "direct"
    /\ call.raised = "none"
    /\ DOMAIN call.raw_input = {"hr", "mnth", "workingday", "temp", "hum"}
    /\ \E i \in 1..Len(call.vector) : TrainedFeatureNames[i] = "season" /\ call.vector[i] = 0
    /\ \E i \in 1..Len(call.vector) : TrainedFeatureNames[i] = "hum" /\ call.vector[i] > 0

\* A date as the number yyyymmdd.
DayNumber(d) == d[1] * 10000 + d[2] * 100 + d[3]

\* C9: the split partitions the dataset: every training row is dated strictly before
\* SPLIT_DATE, every held-out row on or after it, no row is in both partitions and
\* every row is in one of them.
C9_SplitPartitions ==
    split.done =>
        /\ \A r \in SeqSet(split.train_rows) : DayNumber(r.dteday) < DayNumber(SPLIT_DATE)
        /\ \A r \in SeqSet(split.test_rows) : DayNumber(r.dteday) >= DayNumber(SPLIT_DATE)
        /\ SeqSet(split.train_rows) \cap SeqSet(split.test_rows) = {}
        /\ SeqSet(split.train_rows) \cup SeqSet(split.test_rows) = SeqSet(split.df)
        /\ Len(split.train_rows) + Len(split.test_rows) = Len(split.df)
        /\ \A i \in 1..Len(split.df) : split.train_mask[i] # split.test_mask[i]

C9_Witness ==
    /\ split.done
    /\ Len(split.df) = MaxRows
    /\ \E r \in SeqSet(split.test_rows) : r.dteday = SPLIT_DATE
    /\ \E r \in SeqSet(split.train_rows) : r.dteday[1] = SPLIT_DATE[1]

\* C10: every prediction served uses a model and a feature-name schema that come from
\* the same training run.
C10_ModelAndSchemaSameRun ==
    (call.src = "api" /\ call.raised = "none") => call.model.run = call.schema.run

====
